---- MODULE Spec2Model ----
(***************************************************************************)
(* Model of all_aws_cis14_compliance.py: account resolution, the threaded  *)
(* per-account report fetch, the normalization of the fetched reports in   *)
(* the consumer loop of main, and the final print of the JSON array.       *)
(*                                                                         *)
(* Python strings that the program takes apart or compares are sequences   *)
(* of one-character strings; opaque payloads are TLA+ strings.             *)
(***************************************************************************)
EXTENDS Integers, Sequences, FiniteSets, Bags, TLC

VARIABLES
    pc,                  \* position of the main thread
    cloud_accounts,      \* cloud_accounts['data'] as returned by the listing call
    aws_account_ids,     \* list_aws_account_ids / aws_account_ids
    workers,             \* max_workers of the ThreadPoolExecutor on this host
    executor_tasks,      \* the futures, in submission order
    requests,            \* primaryQueryId of every reports.get call issued, in order
    normalized_findings, \* the output collection
    yielded,             \* futures handed out by as_completed, in order, with the slice they appended
    error,               \* the exception that left main, or "none"
    stdout               \* every document printed

vars == <<pc, cloud_accounts, aws_account_ids, workers, executor_tasks, requests,
          normalized_findings, yielded, error, stdout>>

---------------------------------------------------------------------------
(* Bounds of the model *)

\* longest account listing the upstream service returns
MaxAccounts == 2
\* largest worker pool considered
MaxWorkers == 2
\* most sections of a raw report handed to the normalization alone
MaxSections == 3
\* longest account segment of a well-formed role reference
MaxDigits == 2
\* longest role name, after role/, of a well-formed role reference
MaxNameLen == 2

---------------------------------------------------------------------------
(* Strings *)

Colon == ":"
DoubleColon == <<":", ":">>
SingleColon == <<":">>

Digits == {"0", "1", "2", "3", "4", "5", "6", "7", "8", "9"}

DigitVal(c) ==
    CASE c = "0" -> 0 [] c = "1" -> 1 [] c = "2" -> 2 [] c = "3" -> 3 [] c = "4" -> 4
      [] c = "5" -> 5 [] c = "6" -> 6 [] c = "7" -> 7 [] c = "8" -> 8 [] c = "9" -> 9

RECURSIVE SplitFrom(_, _, _)
\* str.split(sep) scanning left to right; cur is the piece being collected
SplitFrom(s, sep, cur) ==
    IF Len(s) < Len(sep)
    THEN <<cur \o s>>
    ELSE IF SubSeq(s, 1, Len(sep)) = sep
         THEN <<cur>> \o SplitFrom(SubSeq(s, Len(sep) + 1, Len(s)), sep, <<>>)
         ELSE SplitFrom(Tail(s), sep, Append(cur, Head(s)))

split(s, sep) == SplitFrom(s, sep, <<>>)

SeqsUpTo(S, n) == UNION {[1..k -> S] : k \in 0..n}

---------------------------------------------------------------------------
(* Upstream account listing: lw_client.cloud_accounts.get(type='AwsCfg') *)

ArnPrefix == <<"a", "r", "n", ":", "a", "w", "s", ":", "i", "a", "m">>
RoleName == <<"r", "o", "l", "e", "/", "l", "w">>

\* arn:aws:iam::<digits>:role/<name>
RoleArn(digits, name) == ArnPrefix \o DoubleColon \o digits \o SingleColon \o name

Id11 == <<"1", "1">>
Id22 == <<"2", "2">>
Id33 == <<"3", "3">>

Arn11 == RoleArn(Id11, RoleName)
Arn22 == RoleArn(Id22, RoleName)
\* arn:aws:iam:11:role/lw, no '::' anywhere
ArnNoDoubleColon == ArnPrefix \o SingleColon \o Id11 \o SingleColon \o RoleName
\* arn:aws:iam::33, nothing after the account segment
ArnNoColonAfter == ArnPrefix \o DoubleColon \o Id33
\* arn::aws:iam::11:role/lw, a '::' before the one that precedes the account
ArnEarlyDoubleColon ==
    <<"a", "r", "n">> \o DoubleColon \o <<"a", "w", "s", ":", "i", "a", "m">>
        \o DoubleColon \o Id11 \o SingleColon \o RoleName
\* arn:aws:iam:::role/lw, an empty account segment
ArnEmptyAccount == RoleArn(<<>>, RoleName)

Cfg(arn) == [data |-> [crossAccountCredentials |-> [roleArn |-> arn]]]
\* configurations that lack one of the nested fields
CfgNoRoleArn == [data |-> [crossAccountCredentials |-> [externalId |-> <<"e">>]]]
CfgNoCredentials == [data |-> [awsAccountId |-> Id11]]
CfgNoData == [intgGuid |-> <<"g">>]

\* configurations listed in a whole run
RunConfigs == {Cfg(Arn11), Cfg(Arn22), CfgNoRoleArn, Cfg(ArnNoDoubleColon)}

\* configurations listed when only the resolver is run
ResolverConfigs ==
    {Cfg(Arn11), Cfg(Arn22), Cfg(ArnNoDoubleColon), Cfg(ArnNoColonAfter),
     Cfg(ArnEarlyDoubleColon), Cfg(ArnEmptyAccount),
     CfgNoRoleArn, CfgNoCredentials, CfgNoData}

\* account segments and role names of the well-formed references resolved one by one;
\* the names may hold '/' and ':' besides letters
DigitStrings == SeqsUpTo({"0", "7"}, MaxDigits) \ {<<>>}
RoleNames == {<<"r", "o", "l", "e", "/">> \o n : n \in SeqsUpTo({"l", "/", ":"}, MaxNameLen) \ {<<>>}}
WellFormedConfigs == {Cfg(RoleArn(d, n)) : d \in DigitStrings, n \in RoleNames}

HasKey(d, k) == k \in DOMAIN d

\* ExtractAccountId with defaults in place of the subscripts: never raises
ExtractAccountIdLenient(account) ==
    IF ~HasKey(account, "data")
    THEN [ok |-> TRUE, id |-> <<>>]
    ELSE IF ~HasKey(account.data, "crossAccountCredentials")
    THEN [ok |-> TRUE, id |-> <<>>]
    ELSE IF ~HasKey(account.data.crossAccountCredentials, "roleArn")
    THEN [ok |-> TRUE, id |-> <<>>]
    ELSE LET roleArn == account.data.crossAccountCredentials.roleArn
             pieces == split(roleArn, DoubleColon)
         IN  [ok |-> TRUE, id |-> split(pieces[Len(pieces)], SingleColon)[1]]

\* ExtractAccountId taking the piece after the ':' instead of the one before it
ExtractAccountIdWrongPiece(account) ==
    IF ~HasKey(account, "data")
    THEN [ok |-> FALSE, exc |-> "KeyError"]
    ELSE IF ~HasKey(account.data, "crossAccountCredentials")
    THEN [ok |-> FALSE, exc |-> "KeyError"]
    ELSE IF ~HasKey(account.data.crossAccountCredentials, "roleArn")
    THEN [ok |-> FALSE, exc |-> "KeyError"]
    ELSE LET roleArn == account.data.crossAccountCredentials.roleArn
             pieces == split(roleArn, DoubleColon)
         IN  IF Len(pieces) < 2
             THEN [ok |-> FALSE, exc |-> "IndexError"]
             ELSE IF Len(split(pieces[2], SingleColon)) < 2
                  THEN [ok |-> FALSE, exc |-> "IndexError"]
                  ELSE [ok |-> TRUE, id |-> split(pieces[2], SingleColon)[2]]

\* lines 34-36: the subscripts raise KeyError, the [1] raises IndexError
ExtractAccountId(account) ==
    IF ~HasKey(account, "data")
    THEN [ok |-> FALSE, exc |-> "KeyError"]
    ELSE IF ~HasKey(account.data, "crossAccountCredentials")
    THEN [ok |-> FALSE, exc |-> "KeyError"]
    ELSE IF ~HasKey(account.data.crossAccountCredentials, "roleArn")
    THEN [ok |-> FALSE, exc |-> "KeyError"]
    ELSE LET roleArn == account.data.crossAccountCredentials.roleArn
             pieces == split(roleArn, DoubleColon)
         IN  IF Len(pieces) < 2
             THEN [ok |-> FALSE, exc |-> "IndexError"]
             ELSE [ok |-> TRUE, id |-> split(pieces[2], SingleColon)[1]]

---------------------------------------------------------------------------
(* get_aws_account_ids *)

ListAccountsRaise ==
    /\ pc = "list"
    /\ pc' = "failed"
    /\ error' = "UpstreamError"
    /\ UNCHANGED <<cloud_accounts, aws_account_ids, workers, executor_tasks, requests,
                   normalized_findings, yielded, stdout>>

ListAccountsReturn(configs) ==
    /\ pc = "list"
    /\ \E listing \in SeqsUpTo(configs, MaxAccounts) : cloud_accounts' = listing
    /\ pc' = "resolve"
    /\ UNCHANGED <<aws_account_ids, workers, executor_tasks, requests,
                   normalized_findings, yielded, error, stdout>>

\* the listing call returning a single configuration
ListSingleAccount(configs) ==
    /\ pc = "list"
    /\ \E account \in configs : cloud_accounts' = <<account>>
    /\ pc' = "resolve"
    /\ UNCHANGED <<aws_account_ids, workers, executor_tasks, requests,
                   normalized_findings, yielded, error, stdout>>

\* one iteration of the loop of lines 33-37
ResolveStep ==
    /\ pc = "resolve"
    /\ Len(aws_account_ids) < Len(cloud_accounts)
    /\ LET r == ExtractAccountId(cloud_accounts[Len(aws_account_ids) + 1])
       IN  IF r.ok
           THEN /\ aws_account_ids' = Append(aws_account_ids, r.id)
                /\ UNCHANGED <<pc, error>>
           ELSE /\ pc' = "failed"
                /\ error' = r.exc
                /\ UNCHANGED aws_account_ids
    /\ UNCHANGED <<cloud_accounts, workers, executor_tasks, requests,
                   normalized_findings, yielded, stdout>>

RECURSIVE Distinct(_)
\* the sequence without the repeats of an earlier element
Distinct(seq) ==
    IF seq = <<>>
    THEN <<>>
    ELSE LET front == SubSeq(seq, 1, Len(seq) - 1)
         IN  IF \E k \in 1..Len(front) : front[k] = seq[Len(seq)]
             THEN Distinct(front)
             ELSE Append(Distinct(front), seq[Len(seq)])

\* ResolveReturn returning each identifier once
ResolveReturnDistinct ==
    /\ pc = "resolve"
    /\ Len(aws_account_ids) = Len(cloud_accounts)
    /\ pc' = "submit"
    /\ aws_account_ids' = Distinct(aws_account_ids)
    /\ UNCHANGED <<cloud_accounts, workers, executor_tasks, requests,
                   normalized_findings, yielded, error, stdout>>

\* line 39 and lines 69-78: the list is returned and the pool is created
ResolveReturn ==
    /\ pc = "resolve"
    /\ Len(aws_account_ids) = Len(cloud_accounts)
    /\ pc' = "submit"
    /\ UNCHANGED <<cloud_accounts, aws_account_ids, workers, executor_tasks, requests,
                   normalized_findings, yielded, error, stdout>>

---------------------------------------------------------------------------
(* Upstream reports: lw_client.reports.get(primaryQueryId=..., ...) *)

PyNone == [py |-> "None"]
PyList(items) == [py |-> "list", items |-> items]
\* truth value of a Python object: None and the empty list are false
Truthy(v) == v.py = "list" /\ v.items # <<>>

\* the dict {}
EmptyDict == [k \in {} |-> <<>>]

Id99 == <<"9", "9">>

\* a recommendation of account 11, and one whose ACCOUNT_ID is no listed account
RecA ==
    [ACCOUNT_ID |-> Id11, VIOLATIONS |-> "S3 bucket public", RESOURCE_COUNT |-> <<"3">>,
     SEVERITY |-> <<"2">>, TITLE |-> "S3 Public Access"]
RecB ==
    [ACCOUNT_ID |-> Id99, VIOLATIONS |-> "root key in use", RESOURCE_COUNT |-> <<"1", "2">>,
     SEVERITY |-> <<"1">>, TITLE |-> "Root Access Key"]

\* a recommendation whose counts are written with a leading zero
RecC ==
    [ACCOUNT_ID |-> Id22, VIOLATIONS |-> "no MFA", RESOURCE_COUNT |-> <<"0", "3">>,
     SEVERITY |-> <<"0", "4">>, TITLE |-> "MFA"]

RequiredKeys == {"ACCOUNT_ID", "VIOLATIONS", "RESOURCE_COUNT", "SEVERITY", "TITLE"}

Without(rec, key) == [k \in DOMAIN rec \ {key} |-> rec[k]]

\* recommendations the normalization cannot take
MalformedRecs ==
    {Without(RecB, k) : k \in RequiredKeys}
        \cup {[RecB EXCEPT !.RESOURCE_COUNT = <<"x">>], [RecB EXCEPT !.SEVERITY = <<"1", "x">>]}

Section(recs) == [recommendations |-> recs]

\* data payloads made of well-formed recommendations only
GoodPayloads ==
    {<<EmptyDict>>, <<Section(<<>>)>>, <<Section(<<RecA>>)>>, <<Section(<<RecA, RecB>>)>>,
     <<Section(<<RecB>>), EmptyDict, Section(<<RecA, RecA>>)>>}

\* data payloads with a malformed recommendation after a well-formed one
BadPayloads == {<<Section(<<RecA, bad>>)>> : bad \in MalformedRecs}

\* what reports.get may return
Reports ==
    {[message |-> "no data"], [data |-> PyNone], [data |-> PyList(<<>>)]}
        \cup {[data |-> PyList(p)] : p \in GoodPayloads \cup BadPayloads}

---------------------------------------------------------------------------
(* get_compliance_results, run by a worker of the pool *)

Returned(value) == [kind |-> "returned", value |-> value]
Raised(exc) == [kind |-> "raised", exc |-> exc]
NoResult == [kind |-> "none"]
NoReport == [kind |-> "none"]

\* line 48, given what reports.get returned
get_compliance_results(report_results, i) ==
    IF ~HasKey(report_results, "data")
    THEN Raised("KeyError")
    ELSE IF Truthy(report_results.data)
         THEN Returned(<<report_results.data.items, i>>)
         ELSE Returned(<<<<EmptyDict>>, i>>)

---------------------------------------------------------------------------
(* NormalizedFinding and the normalization of one task result (lines 88-100) *)

IsNumeric(s) == s # <<>> /\ \A k \in 1..Len(s) : s[k] \in Digits

RECURSIVE DecimalValue(_)
DecimalValue(s) ==
    IF s = <<>> THEN 0 ELSE 10 * DecimalValue(SubSeq(s, 1, Len(s) - 1)) + DigitVal(s[Len(s)])

\* int(s) giving 0 for a string that is no number
intOrZero(s) == IF IsNumeric(s) THEN Returned(DecimalValue(s)) ELSE Returned(0)

\* int(s) of a str
int(s) == IF IsNumeric(s) THEN Returned(DecimalValue(s)) ELSE Raised("ValueError")

\* NormalizedFinding storing the severity as resource count and the reverse
NormalizedFindingSwapped(account_id, violations, resource_count, severity, title) ==
    IF int(resource_count).kind = "raised"
    THEN int(resource_count)
    ELSE IF int(severity).kind = "raised"
         THEN int(severity)
         ELSE Returned([title |-> title,
                        account_id |-> account_id,
                        violations |-> violations,
                        resource_count |-> int(severity).value,
                        severity |-> int(resource_count).value])

\* lines 15-20
NormalizedFinding(account_id, violations, resource_count, severity, title) ==
    IF int(resource_count).kind = "raised"
    THEN int(resource_count)
    ELSE IF int(severity).kind = "raised"
         THEN int(severity)
         ELSE Returned([title |-> title,
                        account_id |-> account_id,
                        violations |-> violations,
                        resource_count |-> int(resource_count).value,
                        severity |-> int(severity).value])

\* lines 91-99: the subscripts of rec, then the constructor
FindingOfRec(rec) ==
    IF \E k \in RequiredKeys : ~HasKey(rec, k)
    THEN Raised("KeyError")
    ELSE NormalizedFinding(rec["ACCOUNT_ID"], rec["VIOLATIONS"], rec["RESOURCE_COUNT"],
                           rec["SEVERITY"], rec["TITLE"])

\* line 89
Recommendations(compliance_result) ==
    IF HasKey(compliance_result, "recommendations")
    THEN compliance_result["recommendations"]
    ELSE <<>>

Normalized(findings, exc) == [findings |-> findings, exc |-> exc]

RECURSIVE NormalizeRecsDedup(_, _)
\* NormalizeRecs dropping a recommendation whose finding is already collected
NormalizeRecsDedup(recs, findings) ==
    IF recs = <<>>
    THEN Normalized(findings, "none")
    ELSE LET f == FindingOfRec(Head(recs))
         IN  IF f.kind = "raised"
             THEN Normalized(findings, f.exc)
             ELSE IF \E k \in 1..Len(findings) : findings[k] = f.value
                  THEN NormalizeRecsDedup(Tail(recs), findings)
                  ELSE NormalizeRecsDedup(Tail(recs), Append(findings, f.value))

RECURSIVE NormalizeRecs(_, _)
\* the loop of line 90 over recs, appending to findings until a rec raises
NormalizeRecs(recs, findings) ==
    IF recs = <<>>
    THEN Normalized(findings, "none")
    ELSE LET f == FindingOfRec(Head(recs))
         IN  IF f.kind = "raised"
             THEN Normalized(findings, f.exc)
             ELSE NormalizeRecs(Tail(recs), Append(findings, f.value))

RECURSIVE NormalizeSectionsLastFirst(_, _)
\* NormalizeSections walking the sections from the last to the first
NormalizeSectionsLastFirst(sections, findings) ==
    IF sections = <<>>
    THEN Normalized(findings, "none")
    ELSE LET last == sections[Len(sections)]
             r == NormalizeRecs(Recommendations(last), findings)
         IN  IF r.exc # "none"
             THEN r
             ELSE NormalizeSectionsLastFirst(SubSeq(sections, 1, Len(sections) - 1), r.findings)

RECURSIVE NormalizeSections(_, _)
\* the loop of line 88 over the sections of one task result
NormalizeSections(sections, findings) ==
    IF sections = <<>>
    THEN Normalized(findings, "none")
    ELSE LET r == NormalizeRecs(Recommendations(Head(sections)), findings)
         IN  IF r.exc # "none"
             THEN r
             ELSE NormalizeSections(Tail(sections), r.findings)

---------------------------------------------------------------------------
(* json.dumps(normalized_findings, default = lambda x: x.__dict__, indent=2) *)

JsonString(v) == [json |-> "string", v |-> v]
JsonNumber(n) == [json |-> "number", n |-> n]
JsonOpaque(v) == [json |-> "value", v |-> v]

\* x.__dict__ in attribute assignment order (lines 16-20), as a JSON object
JsonObject(finding) ==
    <<<<"title", JsonString(finding.title)>>,
      <<"account_id", JsonString(finding.account_id)>>,
      <<"violations", JsonOpaque(finding.violations)>>,
      <<"resource_count", JsonNumber(finding.resource_count)>>,
      <<"severity", JsonNumber(finding.severity)>>>>

json_dumps(findings) == [k \in 1..Len(findings) |-> JsonObject(findings[k])]

---------------------------------------------------------------------------
(* main: the pool, the submissions and the workers *)

Task(account_id, i) ==
    [account |-> account_id, i |-> i, state |-> "PENDING",
     report |-> NoReport, result |-> NoResult]

TaskIds == 1..Len(executor_tasks)
Running == {t \in TaskIds : executor_tasks[t].state = "RUNNING"}
Finished == {t \in TaskIds : executor_tasks[t].state = "FINISHED"}
Pending == {t \in TaskIds : executor_tasks[t].state = "PENDING"}
Yielded == {yielded[k].task : k \in 1..Len(yielded)}

\* one iteration of the loop of lines 80-81
Submit ==
    /\ pc = "submit"
    /\ Len(executor_tasks) < Len(aws_account_ids)
    /\ LET i == Len(executor_tasks)
       IN  executor_tasks' = Append(executor_tasks, Task(aws_account_ids[i + 1], i))
    /\ UNCHANGED <<pc, cloud_accounts, aws_account_ids, workers, requests,
                   normalized_findings, yielded, error, stdout>>

\* AsCompleted entered while identifiers are still to be submitted
AsCompletedEarly ==
    /\ pc = "submit"
    /\ pc' = "consume"
    /\ UNCHANGED <<cloud_accounts, aws_account_ids, workers, executor_tasks, requests,
                   normalized_findings, yielded, error, stdout>>

\* line 83: as_completed is called once every task is submitted
AsCompleted ==
    /\ pc = "submit"
    /\ Len(executor_tasks) = Len(aws_account_ids)
    /\ pc' = "consume"
    /\ UNCHANGED <<cloud_accounts, aws_account_ids, workers, executor_tasks, requests,
                   normalized_findings, yielded, error, stdout>>

\* StartTask with workers that end after their first work item
StartTaskNoReuse(t) ==
    /\ t \in Pending
    /\ \A u \in Pending : t <= u
    /\ Cardinality(TaskIds \ Pending) < workers
    /\ executor_tasks' = [executor_tasks EXCEPT ![t].state = "RUNNING"]
    /\ requests' = Append(requests, executor_tasks[t].account)
    /\ UNCHANGED <<pc, cloud_accounts, aws_account_ids, workers,
                   normalized_findings, yielded, error, stdout>>

\* a free worker takes the oldest queued work item and issues the request of lines 43-47
StartTask(t) ==
    /\ t \in Pending
    /\ \A u \in Pending : t <= u
    /\ Cardinality(Running) < workers
    /\ executor_tasks' = [executor_tasks EXCEPT ![t].state = "RUNNING"]
    /\ requests' = Append(requests, executor_tasks[t].account)
    /\ UNCHANGED <<pc, cloud_accounts, aws_account_ids, workers,
                   normalized_findings, yielded, error, stdout>>

\* FetchReturn with the worker itself appending the findings of its report
FetchReturnAppending(t) ==
    /\ t \in Running
    /\ \E report_results \in Reports :
          LET res == get_compliance_results(report_results, executor_tasks[t].i)
          IN  /\ executor_tasks' =
                     [executor_tasks EXCEPT ![t].state = "FINISHED",
                                            ![t].report = report_results,
                                            ![t].result = res]
              /\ normalized_findings' =
                     IF res.kind = "returned"
                     THEN NormalizeSections(res.value[1], normalized_findings).findings
                     ELSE normalized_findings
    /\ UNCHANGED <<pc, cloud_accounts, aws_account_ids, workers, requests,
                   yielded, error, stdout>>

\* reports.get returns and line 48 runs: the future holds a result or the KeyError
FetchReturn(t) ==
    /\ t \in Running
    /\ \E report_results \in Reports :
          executor_tasks' =
              [executor_tasks EXCEPT
                  ![t].state = "FINISHED",
                  ![t].report = report_results,
                  ![t].result = get_compliance_results(report_results, executor_tasks[t].i)]
    /\ UNCHANGED <<pc, cloud_accounts, aws_account_ids, workers, requests,
                   normalized_findings, yielded, error, stdout>>

\* FetchRaise making main leave the loop at once, before the result is retrieved
FetchRaiseAborting(t) ==
    /\ t \in Running
    /\ executor_tasks' =
           [executor_tasks EXCEPT ![t].state = "FINISHED",
                                  ![t].result = Raised("UpstreamError")]
    /\ error' = "UpstreamError"
    /\ pc' = IF pc = "consume" THEN "exit" ELSE pc
    /\ UNCHANGED <<cloud_accounts, aws_account_ids, workers, requests,
                   normalized_findings, yielded, stdout>>

\* reports.get raises: the future holds the exception
FetchRaise(t) ==
    /\ t \in Running
    /\ executor_tasks' =
           [executor_tasks EXCEPT ![t].state = "FINISHED",
                                  ![t].result = Raised("UpstreamError")]
    /\ UNCHANGED <<pc, cloud_accounts, aws_account_ids, workers, requests,
                   normalized_findings, yielded, error, stdout>>

---------------------------------------------------------------------------
(* main: the consumer loop, the exit of the with block and the print *)

\* NormalizeTask attributing every finding to the account the report was requested for
NormalizeTaskRequestedId(task_result, findings) ==
    LET r == NormalizeSections(task_result[1], findings)
    IN  Normalized([k \in 1..Len(r.findings) |->
                       IF k > Len(findings)
                       THEN [r.findings[k] EXCEPT
                                !.account_id = aws_account_ids[task_result[2] + 1]]
                       ELSE r.findings[k]],
                   r.exc)

\* NormalizeTask placing the findings by submission index: those of task 0 go first
NormalizeTaskByIndex(task_result, findings) ==
    IF task_result[2] = 0
    THEN LET r == NormalizeSections(task_result[1], <<>>)
         IN  Normalized(r.findings \o findings, r.exc)
    ELSE NormalizeSections(task_result[1], findings)

\* lines 88-100 for one task result
NormalizeTask(task_result, findings) == NormalizeSections(task_result[1], findings)

Slice(t, start, n) == [task |-> t, start |-> start, n |-> n]

\* Consume logging and skipping a task that raised instead of re-raising
ConsumeSkipFailed(t) ==
    /\ pc = "consume"
    /\ t \in Finished \ Yielded
    /\ LET res == executor_tasks[t].result
           r == IF res.kind = "raised"
                THEN Normalized(normalized_findings, "none")
                ELSE NormalizeTask(res.value, normalized_findings)
       IN  /\ normalized_findings' = r.findings
           /\ yielded' = Append(yielded,
                  Slice(t, Len(normalized_findings),
                        Len(r.findings) - Len(normalized_findings)))
           /\ error' = r.exc
           /\ pc' = IF r.exc = "none" THEN "consume" ELSE "exit"
    /\ UNCHANGED <<cloud_accounts, aws_account_ids, workers, executor_tasks, requests, stdout>>

\* one iteration of the loop of lines 83-101: as_completed yields a finished future,
\* task.result() re-raises what the task raised, else the result is normalized
Consume(t) ==
    /\ pc = "consume"
    /\ t \in Finished \ Yielded
    /\ LET res == executor_tasks[t].result
           r == IF res.kind = "raised"
                THEN Normalized(normalized_findings, res.exc)
                ELSE NormalizeTask(res.value, normalized_findings)
       IN  /\ normalized_findings' = r.findings
           /\ yielded' = Append(yielded,
                  Slice(t, Len(normalized_findings),
                        Len(r.findings) - Len(normalized_findings)))
           /\ error' = r.exc
           /\ pc' = IF r.exc = "none" THEN "consume" ELSE "exit"
    /\ UNCHANGED <<cloud_accounts, aws_account_ids, workers, executor_tasks, requests, stdout>>

\* as_completed is exhausted: the loop ends
ConsumeEnd ==
    /\ pc = "consume"
    /\ Yielded = TaskIds
    /\ pc' = "exit"
    /\ UNCHANGED <<cloud_accounts, aws_account_ids, workers, executor_tasks, requests,
                   normalized_findings, yielded, error, stdout>>

\* PoolExit as shutdown(wait=False): main goes on while tasks are queued or running
PoolExitNoWait ==
    /\ pc = "exit"
    /\ pc' = IF error = "none" THEN "print" ELSE "failed"
    /\ UNCHANGED <<cloud_accounts, aws_account_ids, workers, executor_tasks, requests,
                   normalized_findings, yielded, error, stdout>>

\* ThreadPoolExecutor.__exit__: shutdown(wait=True) joins the workers, which drain the
\* queue; then the exception, if any, leaves main
PoolExit ==
    /\ pc = "exit"
    /\ Finished = TaskIds
    /\ pc' = IF error = "none" THEN "print" ELSE "failed"
    /\ UNCHANGED <<cloud_accounts, aws_account_ids, workers, executor_tasks, requests,
                   normalized_findings, yielded, error, stdout>>

\* Emit printing nothing for an empty collection
EmitUnlessEmpty ==
    /\ pc = "print"
    /\ stdout' = IF normalized_findings = <<>>
                 THEN stdout
                 ELSE Append(stdout, json_dumps(normalized_findings))
    /\ pc' = "done"
    /\ UNCHANGED <<cloud_accounts, aws_account_ids, workers, executor_tasks, requests,
                   normalized_findings, yielded, error>>

\* line 103
Emit ==
    /\ pc = "print"
    /\ stdout' = Append(stdout, json_dumps(normalized_findings))
    /\ pc' = "done"
    /\ UNCHANGED <<cloud_accounts, aws_account_ids, workers, executor_tasks, requests,
                   normalized_findings, yielded, error>>

---------------------------------------------------------------------------
(* Specifications *)

Init ==
    /\ pc = "list"
    /\ cloud_accounts = <<>>
    /\ aws_account_ids = <<>>
    /\ workers \in 1..MaxWorkers
    /\ executor_tasks = <<>>
    /\ requests = <<>>
    /\ normalized_findings = <<>>
    /\ yielded = <<>>
    /\ error = "none"
    /\ stdout = <<>>

Next ==
    \/ ListAccountsRaise
    \/ ListAccountsReturn(RunConfigs)
    \/ ResolveStep
    \/ ResolveReturn
    \/ Submit
    \/ AsCompleted
    \/ \E t \in TaskIds : StartTask(t)
    \/ \E t \in TaskIds : FetchReturn(t)
    \/ \E t \in TaskIds : FetchRaise(t)
    \/ \E t \in TaskIds : Consume(t)
    \/ ConsumeEnd
    \/ PoolExit
    \/ Emit

\* a whole run of main
Spec == Init /\ [][Next]_vars

\* the steps of the main thread
MainNext ==
    \/ ListAccountsRaise
    \/ ListAccountsReturn(RunConfigs)
    \/ ResolveStep
    \/ ResolveReturn
    \/ Submit
    \/ AsCompleted
    \/ \E t \in TaskIds : Consume(t)
    \/ ConsumeEnd
    \/ PoolExit
    \/ Emit

\* a whole run in which the main thread keeps running, a free worker takes the
\* oldest queued task, and every upstream call returns or raises
SpecFair ==
    /\ Spec
    /\ WF_vars(MainNext)
    /\ \A t \in 1..MaxAccounts :
          /\ WF_vars(StartTask(t))
          /\ WF_vars(FetchReturn(t) \/ FetchRaise(t))

NextResolver ==
    \/ ListAccountsRaise
    \/ ListAccountsReturn(ResolverConfigs)
    \/ ResolveStep
    \/ ResolveReturn

\* get_aws_account_ids alone, over more role references
SpecResolver == Init /\ [][NextResolver]_vars

NextWellFormed ==
    \/ ListSingleAccount(WellFormedConfigs)
    \/ ResolveStep
    \/ ResolveReturn

\* get_aws_account_ids on one well-formed role reference, over account segments and
\* role names
SpecWellFormed == Init /\ [][NextWellFormed]_vars

\* sections of the raw reports handed to the normalization alone
NormalizerSections ==
    {EmptyDict, Section(<<>>), Section(<<RecA>>), Section(<<RecB, RecA>>),
     Section(<<RecA, RecB, RecA>>), Section(<<RecA, [RecB EXCEPT !.SEVERITY = <<"x">>]>>),
     Section(<<RecC>>)}

\* one finished future holding any raw report of up to MaxSections sections, the
\* consumer loop about to start
InitNormalizer ==
    /\ pc = "consume"
    /\ cloud_accounts = <<Cfg(Arn22)>>
    /\ aws_account_ids = <<Id22>>
    /\ workers = 1
    /\ \E raw_report \in SeqsUpTo(NormalizerSections, MaxSections) :
          executor_tasks =
              <<[Task(Id22, 0) EXCEPT !.state = "FINISHED",
                                      !.result = Returned(<<raw_report, 0>>)]>>
    /\ requests = <<Id22>>
    /\ normalized_findings = <<>>
    /\ yielded = <<>>
    /\ error = "none"
    /\ stdout = <<>>

NextNormalizer ==
    \/ \E t \in TaskIds : Consume(t)
    \/ ConsumeEnd
    \/ PoolExit
    \/ Emit

\* lines 88-103 alone, over raw reports of any number of sections
SpecNormalizer == InitNormalizer /\ [][NextNormalizer]_vars

---------------------------------------------------------------------------
(* Vocabulary of the properties, read off the upstream data *)

\* the recommendations list of a section, empty when the key is absent
SectionRecs(section) ==
    IF "recommendations" \in DOMAIN section THEN section.recommendations ELSE <<>>

RECURSIVE Flatten(_)
\* the recommendations of a sequence of sections, section after section
Flatten(sections) ==
    IF sections = <<>> THEN <<>> ELSE SectionRecs(Head(sections)) \o Flatten(Tail(sections))

\* the sections of what reports.get returned, none when there is no payload
ReportSections(report) ==
    IF "data" \in DOMAIN report /\ report.data.py = "list" THEN report.data.items ELSE <<>>

ReportRecs(report) == Flatten(ReportSections(report))

WellFormedRec(rec) ==
    /\ RequiredKeys \subseteq DOMAIN rec
    /\ IsNumeric(rec.RESOURCE_COUNT)
    /\ IsNumeric(rec.SEVERITY)

HasMalformed(recs) == \E p \in 1..Len(recs) : ~WellFormedRec(recs[p])

\* the finding a well-formed recommendation stands for
ExpectedFinding(rec) ==
    [title |-> rec.TITLE,
     account_id |-> rec.ACCOUNT_ID,
     violations |-> rec.VIOLATIONS,
     resource_count |-> DecimalValue(rec.RESOURCE_COUNT),
     severity |-> DecimalValue(rec.SEVERITY)]

RECURSIVE AllReportRecsFrom(_)
\* the recommendations of the reports of tasks t..N, one after the other
AllReportRecsFrom(t) ==
    IF t > Len(executor_tasks)
    THEN <<>>
    ELSE ReportRecs(executor_tasks[t].report) \o AllReportRecsFrom(t + 1)

AllReportRecs == AllReportRecsFrom(1)

Count(seq, x) == Cardinality({k \in 1..Len(seq) : seq[k] = x})

\* equal as multisets
SameBag(a, b) ==
    /\ Len(a) = Len(b)
    /\ \A k \in 1..Len(a) : Count(a, a[k]) = Count(b, a[k])

TaskRaised(t) == executor_tasks[t].result.kind = "raised"
Ended == pc \in {"print", "done", "failed"}

---------------------------------------------------------------------------
(* Properties *)

\* C1: whenever a run in which every recommendation is well formed prints, the
\* printed array is, as a multiset, exactly one object per recommendation of every
\* requested account's report: none lost, none duplicated, none invented; and a run
\* that got to submit its tasks fails only if a task raised or a recommendation is
\* malformed.
C1_EmittedIsUnionOfReports ==
    /\ (stdout # <<>> /\ \A k \in 1..Len(AllReportRecs) : WellFormedRec(AllReportRecs[k]))
          => /\ Len(stdout) = 1
             /\ SameBag(stdout[1],
                        [k \in 1..Len(AllReportRecs) |->
                            JsonObject(ExpectedFinding(AllReportRecs[k]))])
    /\ (pc = "failed" /\ executor_tasks # <<>>)
          => \/ \E t \in TaskIds : TaskRaised(t)
             \/ HasMalformed(AllReportRecs)

\* two accounts, the second consumed first, one report with a repeated
\* recommendation and one with no recommendation at all
C1_Witness ==
    /\ pc = "done"
    /\ Len(executor_tasks) = 2
    /\ yielded[1].task = 2
    /\ ReportRecs(executor_tasks[1].report) = <<>>
    /\ Len(ReportRecs(executor_tasks[2].report)) = 3
    /\ Len(stdout[1]) = 3

\* C2: once a fetch task has raised, the run never reaches the print and nothing
\* is on standard output, whatever was already collected.
C2_FailFastPrintsNothing ==
    (\E t \in TaskIds : TaskRaised(t)) => (stdout = <<>> /\ pc \notin {"print", "done"})

\* the run failed on the second future consumed, after the first one's findings
\* had been appended
C2_Witness ==
    /\ pc = "failed"
    /\ Len(yielded) = 2
    /\ yielded[1].n > 0
    /\ TaskRaised(yielded[2].task)
    /\ normalized_findings # <<>>

IsPrefix(a, b) == Len(a) <= Len(b) /\ SubSeq(b, 1, Len(a)) = a

\* C3: every step that changes normalized_findings is an iteration of the consumer
\* loop of main, which appends and touches no future; every step of a worker (a
\* future changes) leaves the collection, the consumer's position and the output alone.
C3_OnlyConsumerAppends ==
    [][ /\ normalized_findings' # normalized_findings =>
              /\ pc = "consume"
              /\ executor_tasks' = executor_tasks
              /\ requests' = requests
              /\ Len(yielded') = Len(yielded) + 1
              /\ IsPrefix(normalized_findings, normalized_findings')
        /\ (executor_tasks' # executor_tasks /\ Len(executor_tasks') = Len(executor_tasks)) =>
              /\ normalized_findings' = normalized_findings
              /\ yielded' = yielded
              /\ pc' = pc
              /\ error' = error
              /\ stdout' = stdout
      ]_vars

\* the consumer has appended findings while a worker is still inside its fetch
C3_Witness ==
    /\ normalized_findings # <<>>
    /\ Running # {}
    /\ pc = "consume"

\* C4: main is past the with block (about to print, printed, or failed after the
\* pool was entered) only when every resolved account was submitted and every
\* submitted task has run and finished; none is left queued, running or without result.
C4_EndOnlyAfterAllTasks ==
    (Ended /\ executor_tasks # <<>>) =>
        /\ Len(executor_tasks) = Len(aws_account_ids)
        /\ Len(requests) = Len(executor_tasks)
        /\ \A t \in TaskIds :
              /\ executor_tasks[t].state = "FINISHED"
              /\ executor_tasks[t].result.kind \in {"returned", "raised"}

\* the first future consumed had raised; the other task still ran to a result that
\* nobody consumed
C4_Witness ==
    /\ pc = "failed"
    /\ Len(executor_tasks) = 2
    /\ Len(yielded) = 1
    /\ TaskRaised(yielded[1].task)
    /\ \E t \in TaskIds \ Yielded : executor_tasks[t].result.kind = "returned"

\* a configuration get_aws_account_ids cannot resolve
Unparseable(account) ==
    \/ "data" \notin DOMAIN account
    \/ "crossAccountCredentials" \notin DOMAIN account.data
    \/ "roleArn" \notin DOMAIN account.data.crossAccountCredentials
    \/ LET arn == account.data.crossAccountCredentials.roleArn
       IN  ~\E k \in 1..(Len(arn) - 1) : arn[k] = ":" /\ arn[k + 1] = ":"

\* C5: when the listing call failed, or the listing holds a configuration that cannot
\* be resolved, no task is ever submitted, no report is ever requested, nothing is
\* printed, and main never gets past the resolution.
C5_ResolutionFailureIsFatal ==
    ( \/ (pc = "failed" /\ cloud_accounts = <<>>)
      \/ \E k \in 1..Len(cloud_accounts) : Unparseable(cloud_accounts[k]) )
        => /\ executor_tasks = <<>>
           /\ requests = <<>>
           /\ stdout = <<>>
           /\ pc \in {"resolve", "failed"}

\* the run failed on the second configuration, after the first had been resolved
C5_Witness ==
    /\ pc = "failed"
    /\ Len(cloud_accounts) = 2
    /\ Len(aws_account_ids) = 1
    /\ Unparseable(cloud_accounts[2])

\* the recommendations of the task result consumed k-th, in section order
SliceRecs(k) == Flatten(executor_tasks[yielded[k].task].result.value[1])
SliceReturned(k) == executor_tasks[yielded[k].task].result.kind = "returned"
\* the findings the k-th iteration of the consumer loop appended
SliceFindings(k) ==
    SubSeq(normalized_findings, yielded[k].start + 1, yielded[k].start + yielded[k].n)

FirstMalformed(recs) ==
    CHOOSE p \in 1..Len(recs) :
        ~WellFormedRec(recs[p]) /\ \A q \in 1..(p - 1) : WellFormedRec(recs[q])

\* C6: a report holding a recommendation that lacks a required key or has a
\* non-numeric RESOURCE_COUNT or SEVERITY never lets the run print; when its task is
\* consumed, exactly the recommendations before the first such one became findings
\* (none for it or after it), the loop stopped with the error, and the findings
\* appended before stay in the collection.
C6_MalformedRecommendationIsFatal ==
    /\ \A t \in TaskIds :
          HasMalformed(ReportRecs(executor_tasks[t].report))
              => (stdout = <<>> /\ pc \notin {"print", "done"})
    /\ \A k \in 1..Len(yielded) :
          (SliceReturned(k) /\ HasMalformed(SliceRecs(k))) =>
              LET p == FirstMalformed(SliceRecs(k))
              IN  /\ yielded[k].n = p - 1
                  /\ \A q \in 1..(p - 1) : SliceFindings(k)[q] = ExpectedFinding(SliceRecs(k)[q])
                  /\ k = Len(yielded)
                  /\ Len(normalized_findings) = yielded[k].start + yielded[k].n
                  /\ error \in {"KeyError", "ValueError"}
                  /\ pc \in {"exit", "failed"}

\* the run failed on a non-numeric field of the second recommendation of the
\* second report consumed; the findings before it are in the collection
C6_Witness ==
    /\ pc = "failed"
    /\ error = "ValueError"
    /\ Len(yielded) = 2
    /\ yielded[1].n > 0
    /\ yielded[2].n = 1
    /\ HasMalformed(SliceRecs(2))
    /\ stdout = <<>>

\* C7 (as claimed): whatever reports.get returns, the task returns the data payload
\* when it is present and non-empty and a single empty record otherwise; such a
\* placeholder, like a section without recommendations, adds no finding and no error.
C7_FetcherPayloadOrPlaceholder ==
    /\ \A t \in TaskIds :
          LET report == executor_tasks[t].report
          IN  report # NoReport =>
                  executor_tasks[t].result =
                      Returned(<<IF ReportSections(report) # <<>>
                                 THEN ReportSections(report)
                                 ELSE <<EmptyDict>>,
                                 executor_tasks[t].i>>)
    /\ \A k \in 1..Len(yielded) :
          LET report == executor_tasks[yielded[k].task].report
          IN  (report # NoReport /\ ReportRecs(report) = <<>>) =>
                  (yielded[k].n = 0 /\ (k < Len(yielded) \/ error = "none"))

RECURSIVE RecsBefore(_, _)
\* how many recommendations the sections before section s hold
RecsBefore(sections, s) ==
    IF s <= 1 THEN 0 ELSE RecsBefore(sections, s - 1) + Len(SectionRecs(sections[s - 1]))

\* C8: normalizing one raw report whose recommendations are well formed appends
\* nothing for zero sections and for sections without a recommendations key, and
\* otherwise one finding per recommendation, placed by section order and then by
\* order within the section: as many findings as recommendations, repeats kept.
C8_NormalizerKeepsInputOrder ==
    \A k \in 1..Len(yielded) :
        (SliceReturned(k) /\ ~HasMalformed(SliceRecs(k))) =>
            LET sections == executor_tasks[yielded[k].task].result.value[1]
            IN  /\ yielded[k].n = RecsBefore(sections, Len(sections) + 1)
                /\ (sections = <<>> => yielded[k].n = 0)
                /\ (\A s \in 1..Len(sections) : "recommendations" \notin DOMAIN sections[s])
                       => yielded[k].n = 0
                /\ \A s \in 1..Len(sections) :
                      \A j \in 1..Len(SectionRecs(sections[s])) :
                          SliceFindings(k)[RecsBefore(sections, s) + j]
                              = ExpectedFinding(SectionRecs(sections[s])[j])
                /\ error = "none"

\* three sections, the middle one without the key, unsorted and with repeats
C8_Witness ==
    /\ Len(yielded) = 1
    /\ executor_tasks[1].result.value[1]
           = <<Section(<<RecB, RecA>>), EmptyDict, Section(<<RecA, RecB, RecA>>)>>
    /\ Len(normalized_findings) = 5
    /\ pc = "done"

\* C9: every finding carries the ACCOUNT_ID of the recommendation it was built
\* from; what is printed has the five fields of a finding and no other, and an
\* account that was requested but is the ACCOUNT_ID of no recommendation is the
\* account_id of no printed object.
C9_AccountIdComesFromRecommendation ==
    /\ \A k \in 1..Len(yielded) :
          SliceReturned(k) =>
              \A q \in 1..yielded[k].n :
                  SliceFindings(k)[q].account_id = SliceRecs(k)[q]["ACCOUNT_ID"]
    /\ stdout # <<>> =>
          \A o \in 1..Len(stdout[1]) :
              /\ [f \in 1..Len(stdout[1][o]) |-> stdout[1][o][f][1]]
                     = <<"title", "account_id", "violations", "resource_count", "severity">>
              /\ \A a \in 1..Len(aws_account_ids) :
                    (\A r \in 1..Len(AllReportRecs) :
                        AllReportRecs[r]["ACCOUNT_ID"] # aws_account_ids[a])
                        => stdout[1][o][2][2].v # aws_account_ids[a]

\* printed findings of a report requested for account 22 whose recommendations
\* name other accounts
C9_Witness ==
    /\ pc = "done"
    /\ stdout[1] # <<>>
    /\ \A t \in TaskIds : executor_tasks[t].account = Id22
    /\ \A o \in 1..Len(stdout[1]) : stdout[1][o][2][2].v # Id22

\* the reference has the shape arn:aws:iam::<ACCOUNT_ID>:<rest>: its first '::' comes
\* right after arn:aws:iam and a ':' follows the account segment
ExpectedStructure(arn) ==
    LET head == ArnPrefix \o DoubleColon
    IN  /\ Len(arn) > Len(head)
        /\ SubSeq(arn, 1, Len(head)) = head
        /\ \E k \in (Len(head) + 1)..Len(arn) : arn[k] = ":"

WellFormedConfig(account) ==
    /\ "data" \in DOMAIN account
    /\ "crossAccountCredentials" \in DOMAIN account.data
    /\ "roleArn" \in DOMAIN account.data.crossAccountCredentials
    /\ ExpectedStructure(account.data.crossAccountCredentials.roleArn)

\* C10 (as claimed): an identifier is only ever returned for a configuration that
\* has the nested fields and whose reference has the expected delimiter structure.
C10_MalformedReferenceRejected ==
    \A k \in 1..Len(aws_account_ids) : WellFormedConfig(cloud_accounts[k])

\* C11: a configuration whose reference is arn:aws:iam::<digits>:role/<name> is
\* resolved, without error, to exactly <digits>, for every digit string and name.
C11_WellFormedArnGivesDigits ==
    /\ pc # "failed"
    /\ \A k \in 1..Len(aws_account_ids) :
          \A d \in DigitStrings : \A n \in RoleNames :
              cloud_accounts[k] = Cfg(RoleArn(d, n)) => aws_account_ids[k] = d

\* arn:aws:iam::07:role/:: resolved to 07
C11_Witness ==
    /\ pc = "submit"
    /\ cloud_accounts = <<Cfg(RoleArn(<<"0", "7">>, <<"r", "o", "l", "e", "/", ":", ":">>))>>
    /\ aws_account_ids = <<<<"0", "7">>>>

\* the account a listed configuration of a whole run names
ListedId(account) == CHOOSE d \in {Id11, Id22} : account = Cfg(RoleArn(d, RoleName))

\* main has the resolver's list
PastResolution ==
    \/ pc \in {"submit", "consume", "exit", "print", "done"}
    \/ (pc = "failed" /\ executor_tasks # <<>>)

\* C12: once resolved, the identifiers are as many as the listed configurations and
\* the k-th is the account of the k-th configuration, repeats included; the k-th
\* task fetches for the k-th configuration, and a run that prints has consumed one
\* report per listed configuration and prints one object per recommendation of each.
C12_ResolverKeepsOrderAndRepeats ==
    PastResolution =>
        /\ Len(aws_account_ids) = Len(cloud_accounts)
        /\ \A k \in 1..Len(cloud_accounts) : aws_account_ids[k] = ListedId(cloud_accounts[k])
        /\ \A t \in TaskIds : executor_tasks[t].account = ListedId(cloud_accounts[t])
        /\ pc \in {"consume", "exit", "print", "done", "failed"}
              => Len(executor_tasks) = Len(cloud_accounts)
        /\ pc = "done" =>
              /\ Len(requests) = Len(cloud_accounts)
              /\ Len(yielded) = Len(cloud_accounts)
              /\ Len(stdout[1]) = Len(AllReportRecs)

\* account 11 listed twice: two fetches, and the findings of both reports printed
C12_Witness ==
    /\ pc = "done"
    /\ cloud_accounts = <<Cfg(Arn11), Cfg(Arn11)>>
    /\ aws_account_ids = <<Id11, Id11>>
    /\ requests = <<Id11, Id11>>
    /\ executor_tasks[1].report = executor_tasks[2].report
    /\ Len(ReportRecs(executor_tasks[1].report)) = 2
    /\ Len(stdout[1]) = 4

\* Python values read back from the printed JSON, and the values of a recommendation
PyStr(chars) == [py |-> "str", chars |-> chars]
PyInt(n) == [py |-> "int", n |-> n]
PyObject(v) == [py |-> "object", v |-> v]

\* json.loads of one printed value
json_loads(value) ==
    CASE value.json = "string" -> PyStr(value.v)
      [] value.json = "number" -> PyInt(value.n)
      [] value.json = "value" -> PyObject(value.v)

\* json.loads of one printed object: field name to value
LoadedObject(object) ==
    [name \in {object[f][1] : f \in 1..Len(object)} |->
        json_loads(object[CHOOSE f \in 1..Len(object) : object[f][1] = name][2])]

\* the printed field that carries a required key
FieldOf(key) ==
    CASE key = "ACCOUNT_ID" -> "account_id"
      [] key = "VIOLATIONS" -> "violations"
      [] key = "RESOURCE_COUNT" -> "resource_count"
      [] key = "SEVERITY" -> "severity"
      [] key = "TITLE" -> "title"

\* the value a recommendation holds under a required key: the payload is opaque,
\* the other four are strings
SourceValue(rec, key) ==
    IF key = "VIOLATIONS" THEN PyObject(rec[key]) ELSE PyStr(rec[key])

\* the value that comes back for a required key: the counts as the integers int() makes
CoercedValue(rec, key) ==
    IF key \in {"RESOURCE_COUNT", "SEVERITY"}
    THEN PyInt(DecimalValue(rec[key]))
    ELSE SourceValue(rec, key)

\* C13 (as claimed): what is printed for a raw report reads back, object by object,
\* to the same value as the source recommendation under every required key.
C13_RoundTripSameValues ==
    stdout # <<>> =>
        \A q \in 1..Len(stdout[1]) : \A key \in RequiredKeys :
            LoadedObject(stdout[1][q])[FieldOf(key)] = SourceValue(SliceRecs(1)[q], key)

\* C13 (amended): what is printed reads back, object by object, to the source
\* recommendation's ACCOUNT_ID, VIOLATIONS and TITLE unchanged and to its
\* RESOURCE_COUNT and SEVERITY as the integers int() makes of them.
C13_RoundTripUpToIntCoercion ==
    stdout # <<>> =>
        /\ Len(stdout[1]) = Len(SliceRecs(1))
        /\ \A q \in 1..Len(stdout[1]) : \A key \in RequiredKeys :
              LoadedObject(stdout[1][q])[FieldOf(key)] = CoercedValue(SliceRecs(1)[q], key)

\* a printed report whose recommendation has RESOURCE_COUNT "03" and SEVERITY "04"
C13_Witness ==
    /\ pc = "done"
    /\ SliceRecs(1) = <<RecC>>
    /\ LoadedObject(stdout[1][1])["resource_count"] = PyInt(3)
    /\ LoadedObject(stdout[1][1])["severity"] = PyInt(4)

\* C14: at most one document is ever on standard output; a run that ends without
\* error has printed exactly one, and a document is there only after every submitted
\* task was consumed without error; it holds the whole collection, finding by
\* finding; with no account, or no recommendation in any report, it is the empty array.
C14_OneArrayAfterLastResult ==
    /\ Len(stdout) <= 1
    /\ pc = "done" => Len(stdout) = 1
    /\ stdout # <<>> =>
          /\ pc = "done"
          /\ error = "none"
          /\ Len(executor_tasks) = Len(aws_account_ids)
          /\ Yielded = TaskIds
          /\ Len(stdout[1]) = Len(normalized_findings)
          /\ \A q \in 1..Len(stdout[1]) :
                LoadedObject(stdout[1][q]) =
                    [title |-> PyStr(normalized_findings[q].title),
                     account_id |-> PyStr(normalized_findings[q].account_id),
                     violations |-> PyObject(normalized_findings[q].violations),
                     resource_count |-> PyInt(normalized_findings[q].resource_count),
                     severity |-> PyInt(normalized_findings[q].severity)]
    /\ (pc = "done" /\ (aws_account_ids = <<>> \/ AllReportRecs = <<>>))
          => stdout = << <<>> >>

\* two accounts whose reports hold no recommendation: [] was printed
C14_Witness ==
    /\ pc = "done"
    /\ Len(executor_tasks) = 2
    /\ AllReportRecs = <<>>
    /\ stdout = << <<>> >>

RECURSIVE AppendedBefore(_)
\* how many findings the iterations before the k-th appended
AppendedBefore(k) == IF k <= 1 THEN 0 ELSE AppendedBefore(k - 1) + yielded[k - 1].n

RECURSIVE ExpectedFindings(_)
ExpectedFindings(recs) ==
    IF recs = <<>> THEN <<>> ELSE <<ExpectedFinding(Head(recs))>> \o ExpectedFindings(Tail(recs))

\* C15: the collection is the findings of the consumed task results one after the
\* other in the order as_completed handed the tasks out, each task's findings in its
\* report's order; where a task stands in the submission order plays no part.
C15_OrderIsConsumptionOrder ==
    /\ Len(normalized_findings) = AppendedBefore(Len(yielded) + 1)
    /\ \A k \in 1..Len(yielded) :
          /\ yielded[k].start = AppendedBefore(k)
          /\ \A j \in 1..Len(yielded) : yielded[j].task = yielded[k].task => j = k
          /\ IF SliceReturned(k)
             THEN /\ yielded[k].n <= Len(SliceRecs(k))
                  /\ \A q \in 1..yielded[k].n :
                        SliceFindings(k)[q] = ExpectedFinding(SliceRecs(k)[q])
             ELSE yielded[k].n = 0

\* the task submitted second was consumed first, and what was printed differs from
\* the reports in submission order
C15_Witness ==
    /\ pc = "done"
    /\ Len(yielded) = 2
    /\ yielded[1].task = 2
    /\ yielded[2].task = 1
    /\ normalized_findings # ExpectedFindings(AllReportRecs)
    /\ SameBag(normalized_findings, ExpectedFindings(AllReportRecs))

\* the k-th iteration of the consumer loop ended in an exception
SliceFailed(k) ==
    \/ TaskRaised(yielded[k].task)
    \/ (SliceReturned(k) /\ HasMalformed(SliceRecs(k)))

\* C16: a task that raised changes nothing in main until its result is retrieved:
\* no step of a worker changes main's position, its error or the collection; main
\* holds an error from the pool block only when the last task it consumed failed;
\* every task consumed before that one was normalized in full; and once main holds
\* the error, nothing more is consumed or appended.
C16_ErrorSeenOnlyAtRetrieval ==
    /\ [](/\ (PastResolution /\ error # "none")
                => (yielded # <<>> /\ SliceFailed(Len(yielded)))
          /\ \A k \in 1..(Len(yielded) - 1) :
                /\ ~SliceFailed(k)
                /\ SliceFindings(k) = ExpectedFindings(SliceRecs(k)))
    /\ [][ /\ (executor_tasks' # executor_tasks /\ Len(executor_tasks') = Len(executor_tasks))
                => (pc' = pc /\ error' = error /\ yielded' = yielded
                    /\ normalized_findings' = normalized_findings)
           /\ error # "none"
                => (yielded' = yielded /\ normalized_findings' = normalized_findings
                    /\ error' = error)
         ]_vars

\* a task has raised and main, not having retrieved it, has appended the findings
\* of another task and goes on consuming
C16_Witness ==
    /\ pc = "consume"
    /\ error = "none"
    /\ \E t \in Finished \ Yielded : TaskRaised(t)
    /\ Len(yielded) = 1
    /\ yielded[1].n > 0
    /\ normalized_findings # <<>>

\* C17: the t-th task is for the t-th resolved identifier; nothing is consumed
\* before every identifier has its task; each request issued is for the account of
\* a task that has started, so no identifier is requested more often than it was
\* resolved and none that was not resolved; and a run that got past the resolution
\* ends with exactly one request per occurrence of every identifier.
C17_OneRequestPerResolvedId ==
    /\ \A t \in TaskIds :
          /\ t <= Len(aws_account_ids)
          /\ executor_tasks[t].account = aws_account_ids[t]
          /\ executor_tasks[t].i = t - 1
    /\ (yielded # <<>> \/ pc \in {"consume", "exit", "print", "done"})
          => Len(executor_tasks) = Len(aws_account_ids)
    /\ pc \in {"list", "resolve", "submit"} => yielded = <<>>
    /\ Len(requests) = Cardinality(TaskIds \ Pending)
    /\ \A r \in 1..Len(requests) :
          /\ \E k \in 1..Len(aws_account_ids) : aws_account_ids[k] = requests[r]
          /\ Count(requests, requests[r]) <= Count(aws_account_ids, requests[r])
    /\ (Ended /\ PastResolution) => SameBag(requests, aws_account_ids)

\* the first task has finished while main is still submitting: it is not consumed
C17_Witness ==
    /\ pc = "submit"
    /\ Len(executor_tasks) < Len(aws_account_ids)
    /\ Finished # {}
    /\ yielded = <<>>

\* C18: every fair run ends for good in exactly one of the two end states, printed
\* or failed, for every number of accounts and pool size, more accounts than workers
\* included; and no state other than these two is without a next step.
C18_RunTerminates ==
    /\ (<>[](pc = "done")) \/ (<>[](pc = "failed"))
    /\ [](pc \in {"done", "failed"} \/ ENABLED Next)

\* two accounts fetched through a pool of one worker, printed
C18_Witness ==
    /\ pc = "done"
    /\ workers = 1
    /\ Len(executor_tasks) = 2
    /\ Len(yielded) = 2

====
